---- MODULE Spec2Model ----
(***************************************************************************)
(* A model of the AES-256 engine of src/aes256.py: the AES256 class, its   *)
(* constructor and key schedule, the single-block transform, the padding   *)
(* rules and the whole-message (block-by-block) encryption, together with  *)
(* a caller that constructs engines and invokes their methods.             *)
(*                                                                         *)
(* A Python bytes object is a sequence of naturals in 0..255; Python index *)
(* i is TLA+ index i+1.  A Python value handed to an isinstance check is a *)
(* record [type, val].                                                     *)
(***************************************************************************)
EXTENDS Integers, Sequences, FiniteSets, TLC

-----------------------------------------------------------------------------
(* Python integer and sequence primitives                                   *)

Min(a, b) == IF a < b THEN a ELSE b

Max(a, b) == IF a > b THEN a ELSE b

RECURSIVE BitXor(_, _)
\* a ^ b on non-negative Python integers (unbounded width)
BitXor(a, b) ==
    IF a = 0 THEN b
    ELSE IF b = 0 THEN a
    ELSE (((a % 2) + (b % 2)) % 2) + 2 * BitXor(a \div 2, b \div 2)

RECURSIVE BitAnd(_, _)
\* a & b on non-negative Python integers
BitAnd(a, b) ==
    IF a = 0 \/ b = 0 THEN 0
    ELSE ((a % 2) * (b % 2)) + 2 * BitAnd(a \div 2, b \div 2)

\* a << 1
Shl1(a) == 2 * a

\* b >> 1
Shr1(b) == b \div 2

\* Python slice bound normalisation: a negative index counts from the end,
\* and every bound is clamped to 0..len
SliceIndex(i, n) == IF i < 0 THEN Max(i + n, 0) ELSE Min(i, n)

\* s[i:j]
Slice(s, i, j) == SubSeq(s, SliceIndex(i, Len(s)) + 1, SliceIndex(j, Len(s)))

\* s[i:]
SliceFrom(s, i) == SubSeq(s, SliceIndex(i, Len(s)) + 1, Len(s))

\* s[:j]
SliceTo(s, j) == SubSeq(s, 1, SliceIndex(j, Len(s)))

\* bytes(generator): the generated values, materialised as a sequence
bytes(gen) == gen \o <<>>

\* bytes([v] * n)
Repeat(v, n) == bytes([i \in 1..n |-> v])

\* bytes(a ^ b for a, b in zip(x, y)): zip stops at the shorter operand
XorZip(x, y) == bytes([i \in 1..Min(Len(x), Len(y)) |-> BitXor(x[i], y[i])])

\* the Python objects handed to the engine
Bytes(s) == [type |-> "bytes", val |-> s]

Str(s) == [type |-> "str", val |-> s]

-----------------------------------------------------------------------------
(* Fixed tables                                                             *)

\* the table with its second entry mistyped as a copy of the first
SBOX_one_typo == <<
     99,  99, 119, 123, 242, 107, 111, 197,  48,   1, 103,  43, 254, 215, 171, 118,
    202, 130, 201, 125, 250,  89,  71, 240, 173, 212, 162, 175, 156, 164, 114, 192,
    183, 253, 147,  38,  54,  63, 247, 204,  52, 165, 229, 241, 113, 216,  49,  21,
      4, 199,  35, 195,  24, 150,   5, 154,   7,  18, 128, 226, 235,  39, 178, 117,
      9, 131,  44,  26,  27, 110,  90, 160,  82,  59, 214, 179,  41, 227,  47, 132,
     83, 209,   0, 237,  32, 252, 177,  91, 106, 203, 190,  57,  74,  76,  88, 207,
    208, 239, 170, 251,  67,  77,  51, 133,  69, 249,   2, 127,  80,  60, 159, 168,
     81, 163,  64, 143, 146, 157,  56, 245, 188, 182, 218,  33,  16, 255, 243, 210,
    205,  12,  19, 236,  95, 151,  68,  23, 196, 167, 126,  61, 100,  93,  25, 115,
     96, 129,  79, 220,  34,  42, 144, 136,  70, 238, 184,  20, 222,  94,  11, 219,
    224,  50,  58,  10,  73,   6,  36,  92, 194, 211, 172,  98, 145, 149, 228, 121,
    231, 200,  55, 109, 141, 213,  78, 169, 108,  86, 244, 234, 101, 122, 174,   8,
    186, 120,  37,  46,  28, 166, 180, 198, 232, 221, 116,  31,  75, 189, 139, 138,
    112,  62, 181, 102,  72,   3, 246,  14,  97,  53,  87, 185, 134, 193,  29, 158,
    225, 248, 152,  17, 105, 217, 142, 148, 155,  30, 135, 233, 206,  85,  40, 223,
    140, 161, 137,  13, 191, 230,  66, 104,  65, 153,  45,  15, 176,  84, 187,  22
>>

SBOX == <<
     99, 124, 119, 123, 242, 107, 111, 197,  48,   1, 103,  43, 254, 215, 171, 118,
    202, 130, 201, 125, 250,  89,  71, 240, 173, 212, 162, 175, 156, 164, 114, 192,
    183, 253, 147,  38,  54,  63, 247, 204,  52, 165, 229, 241, 113, 216,  49,  21,
      4, 199,  35, 195,  24, 150,   5, 154,   7,  18, 128, 226, 235,  39, 178, 117,
      9, 131,  44,  26,  27, 110,  90, 160,  82,  59, 214, 179,  41, 227,  47, 132,
     83, 209,   0, 237,  32, 252, 177,  91, 106, 203, 190,  57,  74,  76,  88, 207,
    208, 239, 170, 251,  67,  77,  51, 133,  69, 249,   2, 127,  80,  60, 159, 168,
     81, 163,  64, 143, 146, 157,  56, 245, 188, 182, 218,  33,  16, 255, 243, 210,
    205,  12,  19, 236,  95, 151,  68,  23, 196, 167, 126,  61, 100,  93,  25, 115,
     96, 129,  79, 220,  34,  42, 144, 136,  70, 238, 184,  20, 222,  94,  11, 219,
    224,  50,  58,  10,  73,   6,  36,  92, 194, 211, 172,  98, 145, 149, 228, 121,
    231, 200,  55, 109, 141, 213,  78, 169, 108,  86, 244, 234, 101, 122, 174,   8,
    186, 120,  37,  46,  28, 166, 180, 198, 232, 221, 116,  31,  75, 189, 139, 138,
    112,  62, 181, 102,  72,   3, 246,  14,  97,  53,  87, 185, 134, 193,  29, 158,
    225, 248, 152,  17, 105, 217, 142, 148, 155,  30, 135, 233, 206,  85,  40, 223,
    140, 161, 137,  13, 191, 230,  66, 104,  65, 153,  45,  15, 176,  84, 187,  22
>>

RCON == <<0, 1, 2, 4, 8, 16, 32, 64, 128, 27, 54>>

\* self.rounds = 14
ROUNDS == 14

\* self.block_size = 16
BLOCK_SIZE == 16

\* len(key) != 32
KEY_LEN == 32

-----------------------------------------------------------------------------
(* Exceptions and results: what a call hands back to its caller            *)

Ok(v) == [exc |-> "None", msg |-> "", val |-> v, trace |-> <<>>]

Raise(e, m) == [exc |-> e, msg |-> m, val |-> <<>>, trace |-> <<>>]

KeyError == Raise("ValueError", "Key must be a 32-byte bytes object")

BlockError == Raise("ValueError", "Plaintext must be a 16-byte bytes object")

PaddingError == Raise("ValueError", "Invalid padding")

IndexError == Raise("IndexError", "index out of range")

-----------------------------------------------------------------------------
(* Round primitives                                                         *)

\* _sub_word: S-box lookup of every byte of a word
sub_word(word) == bytes([i \in 1..Len(word) |-> SBOX[word[i] + 1]])

\* _rot_word rotating to the right: word[-1:] + word[:-1]
rot_word_right(word) == SliceFrom(word, -1) \o SliceTo(word, -1)

\* _rot_word: word[1:] + word[:1]
rot_word(word) == SliceFrom(word, 1) \o SliceTo(word, 1)

\* _add_round_key
add_round_key(state, round_key) == XorZip(state, round_key)

\* _sub_bytes
sub_bytes(state) == bytes([i \in 1..Len(state) |-> SBOX[state[i] + 1]])

\* _shift_rows with row 3 rotated by one position instead of three
shift_rows_row3(state) ==
    LET s0 == state
        s1 == [s0 EXCEPT ![2] = s0[6], ![6] = s0[10], ![10] = s0[14], ![14] = s0[2]]
        s2 == [s1 EXCEPT ![3] = s1[11], ![7] = s1[15], ![11] = s1[3], ![15] = s1[7]]
        s3 == [s2 EXCEPT ![4] = s2[8], ![8] = s2[12], ![12] = s2[16], ![16] = s2[4]]
    IN  s3

\* _shift_rows with every row rotated to the right instead of the left
shift_rows_right(state) ==
    LET s0 == state
        s1 == [s0 EXCEPT ![2] = s0[14], ![6] = s0[2], ![10] = s0[6], ![14] = s0[10]]
        s2 == [s1 EXCEPT ![3] = s1[11], ![7] = s1[15], ![11] = s1[3], ![15] = s1[7]]
        s3 == [s2 EXCEPT ![4] = s2[8], ![8] = s2[12], ![12] = s2[16], ![16] = s2[4]]
    IN  s3

\* _shift_rows: three simultaneous tuple assignments on the list s
shift_rows(state) ==
    LET s0 == state
        s1 == [s0 EXCEPT ![2] = s0[6], ![6] = s0[10], ![10] = s0[14], ![14] = s0[2]]
        s2 == [s1 EXCEPT ![3] = s1[11], ![7] = s1[15], ![11] = s1[3], ![15] = s1[7]]
        s3 == [s2 EXCEPT ![4] = s2[16], ![8] = s2[4], ![12] = s2[8], ![16] = s2[12]]
    IN  s3

RECURSIVE gf_loop(_, _, _, _)
\* the body of _gf_mult's "for _ in range(8)", n iterations left
gf_loop(a, b, p, n) ==
    IF n = 0 THEN p
    ELSE LET p1 == IF BitAnd(b, 1) # 0 THEN BitXor(p, a) ELSE p
             a1 == IF BitAnd(a, 128) # 0 THEN BitXor(Shl1(a), 27) ELSE Shl1(a)
         IN  gf_loop(a1, Shr1(b), p1, n - 1)

\* _gf_mult returning p without the final "& 0xff"
gf_mult_unmasked(a, b) == gf_loop(a, b, 0, 8)

\* _gf_mult with "for _ in range(7)": the top bit of b is never tested
gf_mult_seven(a, b) == BitAnd(gf_loop(a, b, 0, 7), 255)

\* _gf_mult: p & 0xff after 8 iterations
gf_mult(a, b) == BitAnd(gf_loop(a, b, 0, 8), 255)

\* the column mixed in place: each output byte is written before the next is
\* computed, so later outputs read bytes already overwritten
mix_column_in_place(s, i) ==
    LET s1 == [s EXCEPT ![i + 1] =
                  BitXor(BitXor(BitXor(gf_mult(2, s[i + 1]), gf_mult(3, s[i + 2])),
                                s[i + 3]), s[i + 4])]
        s2 == [s1 EXCEPT ![i + 2] =
                  BitXor(BitXor(BitXor(s1[i + 1], gf_mult(2, s1[i + 2])),
                                gf_mult(3, s1[i + 3])), s1[i + 4])]
        s3 == [s2 EXCEPT ![i + 3] =
                  BitXor(BitXor(BitXor(s2[i + 1], s2[i + 2]), gf_mult(2, s2[i + 3])),
                         gf_mult(3, s2[i + 4]))]
    IN  [s3 EXCEPT ![i + 4] =
            BitXor(BitXor(BitXor(gf_mult(3, s3[i + 1]), s3[i + 2]), s3[i + 3]),
                   gf_mult(2, s3[i + 4]))]

\* one iteration of _mix_columns' loop: column at Python offset i (0, 4, 8, 12);
\* a, b, c, d are read before any byte of the column is written
mix_column(s, i) ==
    LET a == s[i + 1]
        b == s[i + 2]
        c == s[i + 3]
        d == s[i + 4]
    IN  [s EXCEPT
           ![i + 1] = BitXor(BitXor(BitXor(gf_mult(2, a), gf_mult(3, b)), c), d),
           ![i + 2] = BitXor(BitXor(BitXor(a, gf_mult(2, b)), gf_mult(3, c)), d),
           ![i + 3] = BitXor(BitXor(BitXor(a, b), gf_mult(2, c)), gf_mult(3, d)),
           ![i + 4] = BitXor(BitXor(BitXor(gf_mult(3, a), b), c), gf_mult(2, d))]

\* _mix_columns: for i in range(0, 16, 4)
mix_columns(state) == mix_column(mix_column(mix_column(mix_column(state, 0), 4), 8), 12)

-----------------------------------------------------------------------------
(* Key schedule                                                             *)

\* the loop body without the "elif i % 8 == 4" branch (the AES-128 recurrence)
expand_step_no_sub(expanded, i) ==
    LET last == SliceFrom(expanded, -4)
        temp == IF i % 8 = 0
                THEN LET t == sub_word(rot_word(last))
                     IN  [t EXCEPT ![1] = BitXor(t[1], RCON[(i \div 8) + 1])]
                ELSE last
    IN  expanded \o XorZip(temp, Slice(expanded, -32, -28))

\* one iteration of _expand_key's loop for word index i
expand_step(expanded, i) ==
    LET last == SliceFrom(expanded, -4)
        temp == IF i % 8 = 0
                THEN LET t == sub_word(rot_word(last))
                     IN  [t EXCEPT ![1] = BitXor(t[1], RCON[(i \div 8) + 1])]
                ELSE IF i % 8 = 4 THEN sub_word(last)
                ELSE last
    IN  expanded \o XorZip(temp, Slice(expanded, -32, -28))

RECURSIVE expand_loop_short(_, _)
\* for i in range(8, 59): one word short
expand_loop_short(expanded, i) ==
    IF i >= 59 THEN expanded ELSE expand_loop_short(expand_step(expanded, i), i + 1)

RECURSIVE expand_loop(_, _)
\* for i in range(8, 60)
expand_loop(expanded, i) ==
    IF i >= 60 THEN expanded ELSE expand_loop(expand_step(expanded, i), i + 1)

\* _expand_key on self.key
expand_key(key) == expand_loop(key, 8)

-----------------------------------------------------------------------------
(* The engine's methods.  "self" is the instance's attribute record.        *)

\* the instance before __init__ has assigned any attribute
NoAttrs == [a \in {} |-> 0]

\* __init__ with the check "len(key) < 32": longer keys pass
init_at_least(key) ==
    IF key.type # "bytes" \/ Len(key.val) < KEY_LEN
    THEN [self |-> NoAttrs, ret |-> KeyError]
    ELSE [self |-> [key          |-> key.val,
                    rounds       |-> ROUNDS,
                    block_size   |-> BLOCK_SIZE,
                    key_schedule |-> expand_key(key.val)],
          ret  |-> [Ok(<<>>) EXCEPT !.trace = << <<"_expand_key", 0>> >>]]

\* AES256.__init__: the new instance and what the constructor call returns;
\* the result's trace says whether _expand_key was called
init(key) ==
    IF key.type # "bytes" \/ Len(key.val) # KEY_LEN
    THEN [self |-> NoAttrs, ret |-> KeyError]
    ELSE [self |-> [key          |-> key.val,
                    rounds       |-> ROUNDS,
                    block_size   |-> BLOCK_SIZE,
                    key_schedule |-> expand_key(key.val)],
          ret  |-> [Ok(<<>>) EXCEPT !.trace = << <<"_expand_key", 0>> >>]]

\* the round key taken one slice too early: key_schedule[(round - 1) * 16:round * 16]
round_key_previous(self, round) == Slice(self.key_schedule, (round - 1) * 16, round * 16)

\* the round key of a round: self.key_schedule[round * 16:(round + 1) * 16]
round_key(self, round) == Slice(self.key_schedule, round * 16, (round + 1) * 16)

\* bytes(...) accepts only values in range(256) and raises ValueError otherwise
RangeError == Raise("ValueError", "bytes must be in range(0, 256)")

InRange(s) == \A i \in DOMAIN s : s[i] \in 0..255

RECURSIVE round_loop(_, _, _, _)
\* encrypt's "for round in range(1, self.rounds)": the state after the loop
\* and the round steps performed, or the exception that ended it
round_loop(self, state, trace, round) ==
    IF round >= self.rounds THEN [exc |-> "None", state |-> state, trace |-> trace]
    ELSE LET s1 == sub_bytes(state)
             s2 == shift_rows(s1)
             s3 == mix_columns(s2)
             s4 == add_round_key(s3, round_key(self, round))
         IN  IF ~ InRange(s4)
             THEN [exc |-> "ValueError", state |-> state, trace |-> trace]
             ELSE round_loop(self, s4,
                             trace \o << <<"sub_bytes", round>>, <<"shift_rows", round>>,
                                         <<"mix_columns", round>>, <<"add_round_key", round>> >>,
                             round + 1)

\* encrypt with the check "len(plaintext) < 16": longer inputs pass, and zip
\* cuts them to the first 16 bytes
encrypt_at_least(self, plaintext) ==
    IF plaintext.type # "bytes" \/ Len(plaintext.val) < 16
    THEN BlockError
    ELSE LET s0 == add_round_key(plaintext.val, Slice(self.key_schedule, 0, 16))
             r  == round_loop(self, s0, << <<"add_round_key", 0>> >>, 1)
             s1 == sub_bytes(r.state)
             s2 == shift_rows(s1)
             s3 == add_round_key(s2, round_key(self, self.rounds))
         IN  IF r.exc # "None" \/ ~ InRange(s3) THEN RangeError
             ELSE [exc |-> "None", msg |-> "", val |-> s3,
                   trace |-> r.trace \o << <<"sub_bytes", self.rounds>>,
                                           <<"shift_rows", self.rounds>>,
                                           <<"add_round_key", self.rounds>> >>]

\* AES256.encrypt: the result carries the ciphertext and the round steps
\* performed, each with the number of the round it belongs to
encrypt(self, plaintext) ==
    IF plaintext.type # "bytes" \/ Len(plaintext.val) # 16
    THEN BlockError
    ELSE LET s0 == add_round_key(plaintext.val, Slice(self.key_schedule, 0, 16))
             r  == round_loop(self, s0, << <<"add_round_key", 0>> >>, 1)
             s1 == sub_bytes(r.state)
             s2 == shift_rows(s1)
             s3 == add_round_key(s2, round_key(self, self.rounds))
         IN  IF r.exc # "None" \/ ~ InRange(s3) THEN RangeError
             ELSE [exc |-> "None", msg |-> "", val |-> s3,
                   trace |-> r.trace \o << <<"sub_bytes", self.rounds>>,
                                           <<"shift_rows", self.rounds>>,
                                           <<"add_round_key", self.rounds>> >>]

\* pad that adds nothing to a buffer already a multiple of the block size
pad_to_multiple(self, data) ==
    LET padding_len == (self.block_size - (Len(data) % self.block_size)) % self.block_size
    IN  data \o Repeat(padding_len, padding_len)

\* pad with 15 in place of the block size
pad_to_fifteen(self, data) ==
    LET padding_len == 15 - (Len(data) % 15)
    IN  data \o Repeat(padding_len, padding_len)

\* AES256.pad
pad(self, data) ==
    LET padding_len == self.block_size - (Len(data) % self.block_size)
    IN  data \o Repeat(padding_len, padding_len)

\* unpad with the check "padding_len >= self.block_size"
unpad_strict(self, data) ==
    IF Len(data) = 0 THEN IndexError
    ELSE LET padding_len == data[Len(data)]
         IN  IF \/ padding_len >= self.block_size
                \/ ~ (\A i \in DOMAIN SliceFrom(data, -padding_len) :
                          SliceFrom(data, -padding_len)[i] = padding_len)
             THEN PaddingError
             ELSE Ok(SliceTo(data, -padding_len))

\* unpad that looks at the declared length only, not at the padding bytes
unpad_unchecked(self, data) ==
    IF Len(data) = 0 THEN IndexError
    ELSE LET padding_len == data[Len(data)]
         IN  IF padding_len > self.block_size
             THEN PaddingError
             ELSE Ok(SliceTo(data, -padding_len))

\* unpad that hands the buffer back unchanged when its padding is invalid
unpad_lenient(self, data) ==
    IF Len(data) = 0 THEN IndexError
    ELSE LET padding_len == data[Len(data)]
         IN  IF \/ padding_len > self.block_size
                \/ ~ (\A i \in DOMAIN SliceFrom(data, -padding_len) :
                          SliceFrom(data, -padding_len)[i] = padding_len)
             THEN Ok(data)
             ELSE Ok(SliceTo(data, -padding_len))

\* AES256.unpad
unpad(self, data) ==
    IF Len(data) = 0 THEN IndexError    \* data[-1] of an empty buffer
    ELSE LET padding_len == data[Len(data)]
         IN  IF \/ padding_len > self.block_size
                \/ ~ (\A i \in DOMAIN SliceFrom(data, -padding_len) :
                          SliceFrom(data, -padding_len)[i] = padding_len)
             THEN PaddingError
             ELSE Ok(SliceTo(data, -padding_len))

RECURSIVE join_blocks_short(_, _, _, _)
\* the join over range(0, len(plaintext) - 16, 16): the last block is left out
join_blocks_short(self, padded, i, acc) ==
    IF i >= Len(padded) - self.block_size THEN Ok(acc)
    ELSE LET c == encrypt(self, Bytes(Slice(padded, i, i + self.block_size)))
         IN  IF c.exc # "None" THEN [c EXCEPT !.trace = <<>>]
             ELSE join_blocks_short(self, padded, i + self.block_size, acc \o c.val)

RECURSIVE join_blocks_chained(_, _, _, _)
\* the join with each block XORed with the previous ciphertext block first
join_blocks_chained(self, padded, i, acc) ==
    IF i >= Len(padded) THEN Ok(acc)
    ELSE LET block == Slice(padded, i, i + self.block_size)
             fed   == IF i = 0 THEN block ELSE XorZip(block, SliceFrom(acc, -16))
             c     == encrypt(self, Bytes(fed))
         IN  IF c.exc # "None" THEN [c EXCEPT !.trace = <<>>]
             ELSE join_blocks_chained(self, padded, i + self.block_size, acc \o c.val)

RECURSIVE join_blocks(_, _, _, _)
\* encrypt_full's b"".join(self.encrypt(plaintext[i:i + 16]) for i in range(...)):
\* the blocks are encrypted in order; an exception of one ends the whole call
join_blocks(self, padded, i, acc) ==
    IF i >= Len(padded) THEN Ok(acc)
    ELSE LET c == encrypt(self, Bytes(Slice(padded, i, i + self.block_size)))
         IN  IF c.exc # "None" THEN [c EXCEPT !.trace = <<>>]
             ELSE join_blocks(self, padded, i + self.block_size, acc \o c.val)

\* encrypt_full without the call of pad
encrypt_full_unpadded(self, plaintext) == join_blocks(self, plaintext, 0, <<>>)

\* AES256.encrypt_full
encrypt_full(self, plaintext) == join_blocks(self, pad(self, plaintext), 0, <<>>)

-----------------------------------------------------------------------------
(* Inputs                                                                   *)

\* longest key a caller tries (0-based counting bytes 00, 01, 02, ...)
MaxKeyLen == 33

\* longest input a caller hands to the single-block encrypt
MaxBlockLen == 32

\* longest plaintext a caller hands to encrypt_full
MaxPlainLen == 32

\* buffers handed to pad and unpad: a run of one byte value, then a tail
MaxFill == 17

MaxTail == 2

\* the bytes 00 01 02 ... of length n
Counting(n) == bytes([i \in 1..n |-> (i - 1) % 256])

\* 00 11 22 33 ... of length n (the FIPS-197 example plaintext when n = 16)
Stepping(n) == bytes([i \in 1..n |-> ((i - 1) * 17) % 256])

\* the key of main(): b'12345678901234567890123456789012'
MainKey == bytes([i \in 1..32 |-> 48 + (i % 10)])

Keys ==
    {Bytes(Counting(n)) : n \in 0..MaxKeyLen}
        \cup {Bytes(MainKey), Str(MainKey), Bytes(Repeat(255, 32))}

Blocks ==
    {Bytes(Stepping(n)) : n \in 0..MaxBlockLen}
        \cup {Bytes(Repeat(0, n)) : n \in 0..MaxBlockLen}
        \cup {Str(Stepping(16))}

Plaintexts ==
    {Bytes(Stepping(n)) : n \in 0..MaxPlainLen}
        \cup {Bytes(Repeat(97, n)) : n \in 0..MaxPlainLen}

FillBytes == {5, 16}

TailBytes == {0, 1, 2, 4, 16, 17}

Tails == UNION {[1..n -> TailBytes] : n \in 0..MaxTail}

Buffers == {Bytes(Repeat(f, n) \o t) : f \in FillBytes, n \in 0..MaxFill, t \in Tails}

-----------------------------------------------------------------------------
(* State: one engine instance and its caller                                *)

VARIABLES
    self,   \* the instance's attributes (NoAttrs until a constructor succeeds)
    pc,     \* the caller: "start" (no engine), "ready", "returned"
    call,   \* the call last made: [op, arg]
    ret     \* what it returned or raised

vars == <<self, pc, call, ret>>

NoCall == [op |-> "none", arg |-> Bytes(<<>>)]

Init ==
    /\ self = NoAttrs
    /\ pc = "start"
    /\ call = NoCall
    /\ ret = Ok(<<>>)

\* aes = AES256(key)
Construct(key) ==
    /\ pc = "start"
    /\ call' = [op |-> "__init__", arg |-> key]
    /\ self' = init(key).self
    /\ ret' = init(key).ret
    /\ pc' = "returned"

\* encrypt that XORs the plaintext into the first round key in place, in the
\* engine's own schedule, instead of into a local copy
Encrypt_in_place(block) ==
    /\ pc = "ready"
    /\ call' = [op |-> "encrypt", arg |-> block]
    /\ ret' = encrypt(self, block)
    /\ pc' = "returned"
    /\ self' = IF ret'.exc = "None"
               THEN [self EXCEPT !.key_schedule =
                        add_round_key(block.val, Slice(self.key_schedule, 0, 16))
                            \o SliceFrom(self.key_schedule, 16)]
               ELSE self

\* aes.encrypt(block)
Encrypt(block) ==
    /\ pc = "ready"
    /\ call' = [op |-> "encrypt", arg |-> block]
    /\ ret' = encrypt(self, block)
    /\ pc' = "returned"
    /\ UNCHANGED self

\* aes.pad(data)
Pad(data) ==
    /\ pc = "ready"
    /\ call' = [op |-> "pad", arg |-> data]
    /\ ret' = Ok(pad(self, data.val))
    /\ pc' = "returned"
    /\ UNCHANGED self

\* unpad that records the padding length it saw as the engine's block size
Unpad_keeps_length(data) ==
    /\ pc = "ready"
    /\ call' = [op |-> "unpad", arg |-> data]
    /\ ret' = unpad(self, data.val)
    /\ pc' = "returned"
    /\ self' = IF Len(data.val) > 0
               THEN [self EXCEPT !.block_size = data.val[Len(data.val)]]
               ELSE self

\* aes.unpad(data)
Unpad(data) ==
    /\ pc = "ready"
    /\ call' = [op |-> "unpad", arg |-> data]
    /\ ret' = unpad(self, data.val)
    /\ pc' = "returned"
    /\ UNCHANGED self

\* aes.unpad(aes.pad(data))
PadUnpad(data) ==
    /\ pc = "ready"
    /\ call' = [op |-> "unpad(pad)", arg |-> data]
    /\ ret' = unpad(self, pad(self, data.val))
    /\ pc' = "returned"
    /\ UNCHANGED self

\* aes.encrypt_full(plaintext)
EncryptFull(plaintext) ==
    /\ pc = "ready"
    /\ call' = [op |-> "encrypt_full", arg |-> plaintext]
    /\ ret' = encrypt_full(self, plaintext.val)
    /\ pc' = "returned"
    /\ UNCHANGED self

\* aes._expand_key(): recomputes the schedule from self.key and returns it
ExpandKey ==
    /\ pc = "ready"
    /\ call' = [op |-> "_expand_key", arg |-> Bytes(<<>>)]
    /\ ret' = Ok(expand_key(self.key))
    /\ pc' = "returned"
    /\ UNCHANGED self

\* the caller takes the result (or the exception) and goes on
Return ==
    /\ pc = "returned"
    /\ pc' = IF DOMAIN self = {} THEN "start" ELSE "ready"
    /\ call' = NoCall
    /\ ret' = Ok(<<>>)
    /\ UNCHANGED self

Next ==
    \/ \E key \in Keys : Construct(key)
    \/ \E block \in Blocks : Encrypt(block)
    \/ \E data \in Buffers : Pad(data)
    \/ \E data \in Buffers : Unpad(data)
    \/ \E data \in Buffers : PadUnpad(data)
    \/ \E plaintext \in Plaintexts : EncryptFull(plaintext)
    \/ ExpandKey
    \/ Return

Spec == Init /\ [][Next]_vars

-----------------------------------------------------------------------------
(* The GF multiplier on its own: a caller applies _gf_mult to a pair of     *)
(* bytes.  call.arg is the pair <<a, b>>, ret.val the number returned.      *)

InitGf ==
    /\ self = NoAttrs
    /\ pc = "gf_call"
    /\ call \in {[op |-> "_gf_mult", arg |-> <<a, b>>] : a \in 0..255, b \in 0..255}
    /\ ret = Ok(<<>>)

\* self._gf_mult(a, b)
GfMult ==
    /\ pc = "gf_call"
    /\ ret' = Ok(gf_mult(call.arg[1], call.arg[2]))
    /\ pc' = "gf_done"
    /\ UNCHANGED <<self, call>>

NextGf == GfMult

SpecGf == InitGf /\ [][NextGf]_vars

-----------------------------------------------------------------------------
(* Concurrent callers of one engine.  Each caller t has made one call,      *)
(* call.made[t], and runs it one round step at a time; the steps of the     *)
(* callers interleave freely.  The local variables of a call (plaintext, i  *)
(* and the joined blocks of encrypt_full; state and round of encrypt) live  *)
(* in the call's frame, call.frames[frame(t)].  pc[t] is the caller's       *)
(* position and ret[t] what its call returned or raised.                    *)

Threads == {1, 2}

\* every caller's call has the one frame of locals
frame_shared(t) == 1

\* the frame of caller t's call: Python gives every call its own locals
frame(t) == t

NoLocals == [plaintext |-> <<>>, i |-> 0, acc |-> <<>>, state |-> <<>>, round |-> 0]

ConcCalls ==
    { [op |-> "encrypt",      arg |-> Bytes(Stepping(16))],
      [op |-> "encrypt",      arg |-> Bytes(Repeat(0, 15))],
      [op |-> "encrypt_full", arg |-> Bytes(Repeat(0, 16))] }

InitConc ==
    /\ self = init(Bytes(MainKey)).self
    /\ pc = [t \in Threads |-> "call"]
    /\ \E made \in [Threads -> ConcCalls] :
           call = [made |-> made, frames |-> [f \in Threads |-> NoLocals]]
    /\ ret = [t \in Threads |-> Ok(<<>>)]

Locals(t) == call.frames[frame(t)]

\* encrypt's entry on a block: the length check, then state = bytearray(plaintext)
EnterBlock(t, block) ==
    IF block.type # "bytes" \/ Len(block.val) # 16
    THEN /\ ret' = [ret EXCEPT ![t] = BlockError]
         /\ pc' = [pc EXCEPT ![t] = "done"]
         /\ UNCHANGED call
    ELSE /\ call' = [call EXCEPT !.frames[frame(t)].state = block.val]
         /\ pc' = [pc EXCEPT ![t] = "add0"]
         /\ UNCHANGED ret

\* the call starts: encrypt enters its block, encrypt_full pads
Enter(t) ==
    /\ pc[t] = "call"
    /\ IF call.made[t].op = "encrypt"
       THEN EnterBlock(t, call.made[t].arg)
       ELSE /\ call' = [call EXCEPT
                           !.frames[frame(t)].plaintext = pad(self, call.made[t].arg.val),
                           !.frames[frame(t)].i = 0,
                           !.frames[frame(t)].acc = <<>>]
            /\ pc' = [pc EXCEPT ![t] = "join"]
            /\ UNCHANGED ret
    /\ UNCHANGED self

\* encrypt_full's generator: the next block, or the joined result
Join(t) ==
    /\ pc[t] = "join"
    /\ IF Locals(t).i >= Len(Locals(t).plaintext)
       THEN /\ ret' = [ret EXCEPT ![t] = Ok(Locals(t).acc)]
            /\ pc' = [pc EXCEPT ![t] = "done"]
            /\ UNCHANGED call
       ELSE EnterBlock(t, Bytes(Slice(Locals(t).plaintext, Locals(t).i,
                                      Locals(t).i + self.block_size)))
    /\ UNCHANGED self

\* state = self._add_round_key(state, self.key_schedule[:16])
AddRoundKey0(t) ==
    /\ pc[t] = "add0"
    /\ call' = [call EXCEPT
                   !.frames[frame(t)].state =
                       add_round_key(Locals(t).state, Slice(self.key_schedule, 0, 16)),
                   !.frames[frame(t)].round = 1]
    /\ pc' = [pc EXCEPT ![t] = IF 1 < self.rounds THEN "sub" ELSE "fsub"]
    /\ UNCHANGED <<self, ret>>

\* state = self._sub_bytes(state), in the loop and in the final round
SubBytes(t) ==
    /\ pc[t] \in {"sub", "fsub"}
    /\ call' = [call EXCEPT !.frames[frame(t)].state = sub_bytes(Locals(t).state)]
    /\ pc' = [pc EXCEPT ![t] = IF pc[t] = "sub" THEN "shift" ELSE "fshift"]
    /\ UNCHANGED <<self, ret>>

\* state = self._shift_rows(state), in the loop and in the final round
ShiftRows(t) ==
    /\ pc[t] \in {"shift", "fshift"}
    /\ call' = [call EXCEPT !.frames[frame(t)].state = shift_rows(Locals(t).state)]
    /\ pc' = [pc EXCEPT ![t] = IF pc[t] = "shift" THEN "mix" ELSE "fadd"]
    /\ UNCHANGED <<self, ret>>

\* state = self._mix_columns(state)
MixColumns(t) ==
    /\ pc[t] = "mix"
    /\ call' = [call EXCEPT !.frames[frame(t)].state = mix_columns(Locals(t).state)]
    /\ pc' = [pc EXCEPT ![t] = "add"]
    /\ UNCHANGED <<self, ret>>

\* the loop's add_round_key with the round's key, then the next round
AddRoundKey(t) ==
    /\ pc[t] = "add"
    /\ call' = [call EXCEPT
                   !.frames[frame(t)].state =
                       add_round_key(Locals(t).state, round_key(self, Locals(t).round)),
                   !.frames[frame(t)].round = Locals(t).round + 1]
    /\ pc' = [pc EXCEPT ![t] = IF Locals(t).round + 1 < self.rounds THEN "sub" ELSE "fsub"]
    /\ UNCHANGED <<self, ret>>

\* the last add_round_key and "return bytes(state)": to the caller, or into
\* encrypt_full's join
FinalAddRoundKey(t) ==
    /\ pc[t] = "fadd"
    /\ LET out == add_round_key(Locals(t).state, round_key(self, self.rounds))
       IN  IF call.made[t].op = "encrypt"
           THEN /\ ret' = [ret EXCEPT ![t] = Ok(out)]
                /\ pc' = [pc EXCEPT ![t] = "done"]
                /\ call' = [call EXCEPT !.frames[frame(t)].state = out]
           ELSE /\ call' = [call EXCEPT
                               !.frames[frame(t)].state = out,
                               !.frames[frame(t)].acc = Locals(t).acc \o out,
                               !.frames[frame(t)].i = Locals(t).i + self.block_size]
                /\ pc' = [pc EXCEPT ![t] = "join"]
                /\ UNCHANGED ret
    /\ UNCHANGED self

NextConc ==
    \E t \in Threads :
        \/ Enter(t)
        \/ Join(t)
        \/ AddRoundKey0(t)
        \/ SubBytes(t)
        \/ ShiftRows(t)
        \/ MixColumns(t)
        \/ AddRoundKey(t)
        \/ FinalAddRoundKey(t)

SpecConc == InitConc /\ [][NextConc]_vars

-----------------------------------------------------------------------------
(* The password generator of src/pass_gen.py.  A Python str is a sequence   *)
(* of one-character strings.  self is the generator's attribute record,     *)
(* call the call made with its local variable password, ret what the call   *)
(* returned or raised.  pc is "gen_ready", "verify" (at the test of the     *)
(* verify-and-adjust loop) or "returned".                                   *)

\* string.ascii_uppercase, string.ascii_lowercase, string.digits
ASCII_UPPERCASE ==
    <<"A", "B", "C", "D", "E", "F", "G", "H", "I", "J", "K", "L", "M",
      "N", "O", "P", "Q", "R", "S", "T", "U", "V", "W", "X", "Y", "Z">>

ASCII_LOWERCASE ==
    <<"a", "b", "c", "d", "e", "f", "g", "h", "i", "j", "k", "l", "m",
      "n", "o", "p", "q", "r", "s", "t", "u", "v", "w", "x", "y", "z">>

DIGITS == <<"0", "1", "2", "3", "4", "5", "6", "7", "8", "9">>

\* self.special_chars = "!@#$%^&*()_+-=[]{}|;:,.<>?"
SPECIAL_CHARS ==
    <<"!", "@", "#", "$", "%", "^", "&", "*", "(", ")", "_", "+", "-",
      "=", "[", "]", "{", "}", "|", ";", ":", ",", ".", "<", ">", "?">>

Chars(seq) == {seq[i] : i \in DOMAIN seq}

\* c.isupper(), c.islower(), c.isdigit() of an ASCII character
isupper(c) == c \in Chars(ASCII_UPPERCASE)

islower(c) == c \in Chars(ASCII_LOWERCASE)

isdigit(c) == c \in Chars(DIGITS)

\* c.lower() of an ASCII character
lower_char(c) ==
    IF isupper(c)
    THEN ASCII_LOWERCASE[CHOOSE i \in DOMAIN ASCII_UPPERCASE : ASCII_UPPERCASE[i] = c]
    ELSE c

\* s.lower()
lower(s) == bytes([i \in 1..Len(s) |-> lower_char(s[i])])

\* s.replace(" ", "")
remove_spaces(s) == SelectSeq(s, LAMBDA c : c # " ")

RECURSIVE join(_)
\* "".join(phrases)
join(phrases) ==
    IF Len(phrases) = 0 THEN <<>> ELSE Head(phrases).val \o join(Tail(phrases))

\* any(pred(c) for c in password)
any_upper(password) == \E i \in DOMAIN password : isupper(password[i])

any_lower(password) == \E i \in DOMAIN password : islower(password[i])

any_digit(password) == \E i \in DOMAIN password : isdigit(password[i])

any_special(gen, password) ==
    \E i \in DOMAIN password : password[i] \in Chars(gen.special_chars)

\* _meets_requirements without the test for a special character
meets_requirements_no_special(gen, password) ==
    IF Len(password) # 10 THEN FALSE
    ELSE any_upper(password) /\ any_lower(password) /\ any_digit(password)

\* PasswordGenerator._meets_requirements
meets_requirements(gen, password) ==
    IF Len(password) # 10 THEN FALSE
    ELSE /\ any_upper(password)
         /\ any_lower(password)
         /\ any_digit(password)
         /\ any_special(gen, password)

\* PasswordGenerator.__init__ (the AES engine it builds is the one above)
Generator ==
    [aes |-> "AES256", special_chars |-> SPECIAL_CHARS, min_length |-> 10, max_length |-> 10]

PhrasesError == Raise("ValueError", "Phrases must be non-empty strings")

CombinedError == Raise("ValueError", "Combined phrases must not be empty")

PasswordError == Raise("ValueError", "Password must be a string")

\* a Python value that is not a str
Number(n) == [type |-> "int", val |-> <<>>]

\* an item assignment that writes the first position whatever p is
SetItem_first(s, p, c) == [s EXCEPT ![1] = c]

\* s[p] = c for a 0-based position p
SetItem(s, p, c) == [s EXCEPT ![p + 1] = c]

\* the outcomes of the random draws that are tried
UpperChoices == {"A"}

LowerChoices == {"a"}

DigitChoices == {"1"}

SpecialChoices == {"!"}

\* random.choice(string.ascii_letters + string.digits + self.special_chars)
FillChoices == UpperChoices \cup LowerChoices \cup DigitChoices \cup SpecialChoices

\* random.shuffle: the orders tried (position i of the result takes the
\* element at position Shuffles[k][i] of the list)
Shuffles ==
    { <<1, 2, 3, 4, 5, 6, 7, 8, 9, 10>>, <<9, 3, 1, 10, 5, 8, 2, 7, 4, 6>> }

\* the phrase lists handed to generate_from_phrases
PhraseLists ==
    { <<>>,
      <<Str(<<"a">>), Number(5)>>,
      <<Str(<<>>)>>,
      <<Str(<<" ">>), Str(<<" ", " ">>)>>,
      <<Str(<<"A", "b">>), Str(<<"a", " ", "1">>)>>,
      <<Str(<<"M", "y", "D", "o", "g">>), Str(<<"S", "p", "o", "t">>),
        Str(<<"1", "2", "3">>)>> }

\* the passwords handed to validate_and_adjust
Passwords ==
    { Number(7),
      Str(<<>>),
      Str(<<"a", "b", "c">>),
      Str(<<"a", "a", "a", "a", "a", "a", "a", "a", "a", "a">>),
      Str(<<"A", "1", "!", "A", "1", "!", "A", "1", "!", "A", "1", "!">>),
      Str(<<"D", "a", "n", "i", "e", "l", "@", "2", "4", "1", "0">>) }

InitGen ==
    /\ self = Generator
    /\ pc = "gen_ready"
    /\ call = [op |-> "none", arg |-> <<>>, password |-> <<>>]
    /\ ret = Ok(<<>>)

\* lines 29-52 of generate_from_phrases for usable phrases and one outcome of
\* the random draws: the filler c, the three positions and characters, the
\* two characters appended, the order after the shuffle
first_password(phrases, c, p1, u, p2, d, p3, sp, f1, f2, order) ==
    LET combined == lower(remove_spaces(join(phrases)))
        base     == IF Len(combined) >= 8
                    THEN SliceTo(combined, 8)
                    ELSE combined \o Repeat(c, 8 - Len(combined))
        with_u   == SetItem(base, p1, u)
        with_d   == SetItem(with_u, p2, d)
        with_sp  == SetItem(with_d, p3, sp)
        filled   == with_sp \o <<f1, f2>>
        shuffled_ == bytes([i \in 1..Len(filled) |-> filled[order[i]]])
    IN  SliceTo(shuffled_, 10)

\* generate_from_phrases up to the first test of the verify-and-adjust loop
GenerateFromPhrases(phrases, c, p1, u, p2, d, p3, sp, f1, f2, order) ==
    /\ pc = "gen_ready"
    /\ IF Len(phrases) = 0 \/ ~ (\A i \in DOMAIN phrases : phrases[i].type = "str")
       THEN /\ ret' = PhrasesError
            /\ pc' = "returned"
            /\ call' = [op |-> "generate_from_phrases", arg |-> phrases, password |-> <<>>]
       ELSE IF Len(lower(remove_spaces(join(phrases)))) = 0
       THEN /\ ret' = CombinedError
            /\ pc' = "returned"
            /\ call' = [op |-> "generate_from_phrases", arg |-> phrases, password |-> <<>>]
       ELSE /\ ret' = ret
            /\ pc' = "verify"
            /\ call' = [op |-> "generate_from_phrases", arg |-> phrases,
                        password |-> first_password(phrases, c, p1, u, p2, d, p3, sp,
                                                    f1, f2, order)]
    /\ UNCHANGED self

\* one pass of the body of "while not self._meets_requirements(password)":
\* the first missing class gets a character at a random position
AdjustStep(pos) ==
    /\ pc = "verify"
    /\ ~ meets_requirements(self, call.password)
    /\ \E ch \in (IF ~ any_upper(call.password) THEN UpperChoices
                  ELSE IF ~ any_lower(call.password) THEN LowerChoices
                  ELSE IF ~ any_digit(call.password) THEN DigitChoices
                  ELSE IF ~ any_special(self, call.password) THEN SpecialChoices
                  ELSE {}) :
           call' = [call EXCEPT !.password = SetItem(call.password, pos, ch)]
    /\ UNCHANGED <<self, pc, ret>>

\* the loop test succeeds: return password
FinishGenerate ==
    /\ pc = "verify"
    /\ meets_requirements(self, call.password)
    /\ ret' = Ok(call.password)
    /\ pc' = "returned"
    /\ UNCHANGED <<self, call>>

\* what validate_and_adjust returns for one outcome of its random draws
validate_and_adjust(gen, password, c, p1, u, p2, l, p3, d, p4, sp) ==
    IF password.type # "str" THEN PasswordError
    ELSE LET sized == IF Len(password.val) > 10 THEN SliceTo(password.val, 10)
                      ELSE IF Len(password.val) < 10
                      THEN password.val \o Repeat(c, 10 - Len(password.val))
                      ELSE password.val
             a1 == IF ~ any_upper(sized) THEN SetItem(sized, p1, u) ELSE sized
             a2 == IF ~ any_lower(a1) THEN SetItem(a1, p2, l) ELSE a1
             a3 == IF ~ any_digit(a2) THEN SetItem(a2, p3, d) ELSE a2
             a4 == IF ~ any_special(gen, a3) THEN SetItem(a3, p4, sp) ELSE a3
         IN  IF ~ meets_requirements(gen, sized) THEN Ok(a4) ELSE Ok(sized)

\* generator.validate_and_adjust(password)
ValidateAndAdjust(password, c, p1, u, p2, l, p3, d, p4, sp) ==
    /\ pc = "gen_ready"
    /\ call' = [op |-> "validate_and_adjust", arg |-> password, password |-> <<>>]
    /\ ret' = validate_and_adjust(self, password, c, p1, u, p2, l, p3, d, p4, sp)
    /\ pc' = "returned"
    /\ UNCHANGED self

\* the draws are made only where a call can start
NextGen ==
    \/ /\ pc = "gen_ready"
       /\ \E phrases \in PhraseLists, c \in LowerChoices, p1, p2, p3 \in 0..7,
             u \in UpperChoices, d \in DigitChoices, sp \in SpecialChoices,
             f1, f2 \in FillChoices, order \in Shuffles :
              GenerateFromPhrases(phrases, c, p1, u, p2, d, p3, sp, f1, f2, order)
    \/ /\ pc = "verify"
       /\ \E pos \in 0..9 : AdjustStep(pos)
    \/ FinishGenerate
    \/ /\ pc = "gen_ready"
       /\ \E password \in Passwords, c \in LowerChoices, p1, p2, p3, p4 \in 0..9,
             u \in UpperChoices, l \in LowerChoices, d \in DigitChoices,
             sp \in SpecialChoices :
              ValidateAndAdjust(password, c, p1, u, p2, l, p3, d, p4, sp)

SpecGen == InitGen /\ [][NextGen]_vars

(* The verify-and-adjust loop on its own, started on passwords that lines   *)
(* 29-52 produce.                                                           *)

\* the positions drawn by the three random.randint(0, 7) before the loop
StartPositions == {0, 3, 7}

\* the passwords the loop starts with
LoopStarts ==
    { [op |-> "generate_from_phrases", arg |-> phrases,
       password |-> first_password(phrases, c, p[1], u, p[2], d, p[3], sp, f[1], f[2], order)] :
          phrases \in {ph \in PhraseLists : Len(ph) = 2 /\ Len(ph[1].val) = 2},
          c \in LowerChoices, u \in UpperChoices, d \in DigitChoices, sp \in SpecialChoices,
          p \in [1..3 -> StartPositions], f \in [1..2 -> FillChoices], order \in Shuffles }

InitLoop ==
    /\ self = Generator
    /\ pc = "verify"
    /\ call \in LoopStarts
    /\ ret = Ok(<<>>)

NextLoop ==
    \/ \E pos \in 0..9 : AdjustStep(pos)
    \/ FinishGenerate

\* random.randint(0, 9) is fair: a position that can be drawn again and again
\* is drawn in the end; the loop test, once it succeeds, returns
SpecLoop ==
    /\ InitLoop
    /\ [][NextLoop]_vars
    /\ WF_vars(FinishGenerate)
    /\ \A pos \in 0..9 : SF_vars(AdjustStep(pos))

-----------------------------------------------------------------------------
(* The password generator of src/logic/pass_manager/pass_gen.py, with a     *)
(* configurable password_length.  pc is "pm_start" (no generator),          *)
(* "pm_ready" or "returned".                                                *)

PmKeyError == Raise("ValueError", "Encryption key must be 32 bytes")

BlankError == Raise("ValueError", "Password cannot be empty")

RECURSIVE lstrip(_)
\* s.lstrip() for the whitespace character " "
lstrip(s) == IF Len(s) > 0 /\ s[1] = " " THEN lstrip(Tail(s)) ELSE s

RECURSIVE rstrip(_)
\* s.rstrip() for the whitespace character " "
rstrip(s) == IF Len(s) > 0 /\ s[Len(s)] = " " THEN rstrip(SubSeq(s, 1, Len(s) - 1)) ELSE s

\* s.strip()
strip(s) == rstrip(lstrip(s))

\* s.ljust(width, fillchar)
ljust(s, width, fillchar) == s \o Repeat(fillchar, Max(width - Len(s), 0))

RECURSIVE join_stripped(_)
\* "".join(p.strip() for p in phrases)
join_stripped(phrases) ==
    IF Len(phrases) = 0 THEN <<>>
    ELSE strip(Head(phrases).val) \o join_stripped(Tail(phrases))

\* random.shuffle of a list of n elements: the orders tried, the rotations
\* and the reversal (position i of the result takes element order[i])
Orders(n) ==
    {[i \in 1..n |-> ((i - 1 + k) % n) + 1] : k \in 0..(n - 1)}
        \cup {[i \in 1..n |-> n + 1 - i]}

\* the list in the order a shuffle left it
shuffled(list, order) == bytes([i \in 1..Len(list) |-> list[order[i]]])

\* PasswordGenerator._meets_requirements of pass_manager
pm_meets_requirements(gen, password) ==
    /\ Len(password) >= gen.password_length
    /\ any_upper(password)
    /\ any_lower(password)
    /\ any_digit(password)
    /\ any_special(gen, password)

\* PasswordGenerator._adjust_to_requirements for one outcome of the draws
\* u, l, d, sp (the characters written), f (the character appended) and the
\* order of the shuffle
pm_adjust_to_requirements(gen, password, u, l, d, sp, f, order) ==
    LET p0 == ljust(password, gen.password_length, "a")
        p1 == IF ~ any_upper(p0) THEN SetItem(p0, 0, u) ELSE p0
        p2 == IF ~ any_lower(p1) THEN SetItem(p1, 1, l) ELSE p1
        p3 == IF ~ any_digit(p2) THEN SetItem(p2, 2, d) ELSE p2
        p4 == IF ~ any_special(gen, p3) THEN SetItem(p3, 3, sp) ELSE p3
        p5 == p4 \o Repeat(f, Max(gen.password_length - Len(p4), 0))
    IN  SliceTo(shuffled(p5, order), gen.password_length)

\* PasswordGenerator._generate_base_password for one outcome of the draws
pm_generate_base_password(gen, combined, c, u, l, d, sp, order) ==
    LET base == IF Len(combined) >= gen.password_length
                THEN SliceTo(combined, gen.password_length)
                ELSE ljust(combined, gen.password_length, c)
        set  == SetItem(SetItem(SetItem(SetItem(base, 0, u), 1, l), 2, d), 3, sp)
    IN  SliceTo(shuffled(set, order), gen.password_length)

\* PasswordGenerator.generate_from_phrases of pass_manager; order2 is the
\* shuffle of _adjust_to_requirements
pm_generate_from_phrases(gen, phrases, c, u, l, d, sp, f, order, order2) ==
    IF \/ Len(phrases) = 0
       \/ ~ (\A i \in DOMAIN phrases :
                 phrases[i].type = "str" /\ Len(strip(phrases[i].val)) > 0)
    THEN PhrasesError
    ELSE LET combined == lower(join_stripped(phrases))
             password == pm_generate_base_password(gen, combined, c, u, l, d, sp, order)
         IN  IF ~ pm_meets_requirements(gen, password)
             THEN Ok(pm_adjust_to_requirements(gen, password, u, l, d, sp, f, order2))
             ELSE Ok(password)

\* PasswordGenerator.validate_and_adjust of pass_manager
pm_validate_and_adjust(gen, password, u, l, d, sp, f, order) ==
    IF password.type # "str" THEN PasswordError
    ELSE IF Len(strip(password.val)) = 0 THEN BlankError
    ELSE Ok(pm_adjust_to_requirements(gen, password.val, u, l, d, sp, f, order))

\* the password_length arguments, keys, phrase lists and passwords tried
PmLengths == {5, 8, 9}

PmKeys == {Bytes(MainKey), Bytes(Counting(31))}

PmPhraseLists ==
    { <<>>,
      <<Str(<<"a">>), Number(5)>>,
      <<Str(<<"a">>), Str(<<" ">>)>>,
      <<Str(<<" ", "A", "b", " ">>), Str(<<"c", " ", "1">>)>>,
      <<Str(<<"M", "y", "D", "o", "g">>), Str(<<"S", "p", "o", "t">>),
        Str(<<"1", "2", "3">>)>> }

PmPasswords ==
    { Number(7),
      Str(<<>>),
      Str(<<" ", " ">>),
      Str(<<"a", "b", "c">>),
      Str(<<"a", "a", "A", "!">>),
      Str(<<"A", "1", "!", "a">>),
      Str(<<"7", "Z">>),
      Str(<<"D", "a", "n", "i", "e", "l", "@", "2", "4", "1", "0">>) }

InitPm ==
    /\ self = NoAttrs
    /\ pc = "pm_start"
    /\ call = [op |-> "none", arg |-> <<>>]
    /\ ret = Ok(<<>>)

\* PasswordGenerator(encryption_key, password_length)
PmConstruct(key, password_length) ==
    /\ pc = "pm_start"
    /\ call' = [op |-> "__init__", arg |-> <<key, password_length>>]
    /\ IF Len(key.val) # 32
       THEN /\ ret' = PmKeyError
            /\ pc' = "returned"
            /\ UNCHANGED self
       ELSE /\ self' = [aes             |-> init(key).self,
                        special_chars   |-> SPECIAL_CHARS,
                        password_length |-> Max(password_length, 8)]
            /\ ret' = Ok(<<>>)
            /\ pc' = "pm_ready"

\* generator.generate_from_phrases(phrases)
PmGenerateFromPhrases(phrases, c, u, l, d, sp, f, order, order2) ==
    /\ pc = "pm_ready"
    /\ call' = [op |-> "generate_from_phrases", arg |-> phrases]
    /\ ret' = pm_generate_from_phrases(self, phrases, c, u, l, d, sp, f, order, order2)
    /\ pc' = "returned"
    /\ UNCHANGED self

\* generator.validate_and_adjust(password)
PmValidateAndAdjust(password, u, l, d, sp, f, order) ==
    /\ pc = "pm_ready"
    /\ call' = [op |-> "validate_and_adjust", arg |-> password]
    /\ ret' = pm_validate_and_adjust(self, password, u, l, d, sp, f, order)
    /\ pc' = "returned"
    /\ UNCHANGED self

NextPm ==
    \/ /\ pc = "pm_start"
       /\ \E key \in PmKeys, password_length \in PmLengths :
              PmConstruct(key, password_length)
    \/ /\ pc = "pm_ready"
       /\ \E phrases \in PmPhraseLists, c \in LowerChoices, u \in UpperChoices,
             l \in LowerChoices, d \in DigitChoices, sp \in SpecialChoices,
             f \in FillChoices :
              \E order, order2 \in Orders(self.password_length) :
                  PmGenerateFromPhrases(phrases, c, u, l, d, sp, f, order, order2)
    \/ /\ pc = "pm_ready"
       /\ \E password \in PmPasswords, u \in UpperChoices, l \in LowerChoices,
             d \in DigitChoices, sp \in SpecialChoices, f \in FillChoices :
              \E order \in Orders(IF password.type = "str"
                                  THEN Max(Len(password.val), self.password_length)
                                  ELSE self.password_length) :
                  PmValidateAndAdjust(password, u, l, d, sp, f, order)

SpecPm == InitPm /\ [][NextPm]_vars

-----------------------------------------------------------------------------
(* Properties                                                               *)

\* the caller holds the result of a call of op
Returned(op) == pc = "returned" /\ call.op = op

\* FIPS-197 Appendix C.3: key 00 01 ... 1f, plaintext 00 11 ... ff
KatKey == Counting(32)

\* the key as the hex string 000102...1d1e spells it: 31 bytes
KatKeyAsWritten == Counting(31)

KatPlain == Stepping(16)

\* 8ea2b7ca516745bfeafc49904b496089
KatCipher == <<142, 162, 183, 202, 81, 103, 69, 191, 234, 252, 73, 144, 75, 73, 96, 137>>

\* C1 as stated: constructing the engine with the key 000102...1d1e succeeds
\* and single-block encrypt of 00112233445566778899aabbccddeeff under it
\* returns 8ea2b7ca516745bfeafc49904b496089.
C1_AsStated ==
    (Returned("__init__") /\ call.arg = Bytes(KatKeyAsWritten))
        => /\ ret.exc = "None"
           /\ encrypt(self, Bytes(KatPlain)).val = KatCipher

\* C1, amended: the key 000102...1d1e is 31 bytes and construction with it
\* raises the key-length error; with the 32-byte key 000102...1e1f a call of
\* single-block encrypt on 00112233445566778899aabbccddeeff returns
\* 8ea2b7ca516745bfeafc49904b496089.
C1_KnownAnswer ==
    /\ (Returned("__init__") /\ call.arg = Bytes(KatKeyAsWritten)) => ret = KeyError
    /\ (Returned("encrypt") /\ self.key = KatKey /\ call.arg = Bytes(KatPlain))
           => (ret.exc = "None" /\ ret.val = KatCipher)

C1_Witness ==
    /\ Returned("encrypt")
    /\ self.key = KatKey
    /\ call.arg = Bytes(KatPlain)
    /\ ret.val = KatCipher

\* C2: an engine constructed from the 32-byte key 00 01 ... 1f holds a key
\* schedule under which the block transform maps the FIPS-197 C.3 plaintext
\* to the published ciphertext, in all 14 rounds' steps.
C2_FipsVector ==
    (Returned("__init__") /\ call.arg = Bytes(KatKey))
        => /\ ret.exc = "None"
           /\ self.key = KatKey
           /\ encrypt(self, Bytes(KatPlain)).exc = "None"
           /\ encrypt(self, Bytes(KatPlain)).val = KatCipher

C2_Witness ==
    /\ Returned("__init__")
    /\ call.arg = Bytes(KatKey)
    /\ Len(self.key_schedule) = 240
    /\ SubSeq(self.key_schedule, 1, 32) = KatKey

\* C3: construction succeeds exactly when the key is a bytes object of 32
\* bytes; otherwise it raises the key-length error before _expand_key is
\* called, and the instance gets no attribute (no key, no key schedule).
C3_KeyLength ==
    Returned("__init__")
        => /\ (ret.exc = "None") <=> (call.arg.type = "bytes" /\ Len(call.arg.val) = 32)
           /\ ret.exc # "None" => (ret = KeyError /\ ret.trace = <<>> /\ self = NoAttrs)
           /\ ret.exc = "None" =>
                  /\ DOMAIN self = {"key", "rounds", "block_size", "key_schedule"}
                  /\ self.key = call.arg.val
                  /\ ret.trace = << <<"_expand_key", 0>> >>

C3_Witness ==
    /\ Returned("__init__")
    /\ call.arg.type = "bytes"
    /\ Len(call.arg.val) = 31
    /\ ret = KeyError
    /\ self = NoAttrs

\* C4: the key schedule of every constructed engine is 240 bytes, 15 round
\* keys of 16 bytes (rounds 0..14), every byte in 0..255.
C4_ScheduleShape ==
    DOMAIN self # {}
        => /\ Len(self.key) = 32
           /\ Len(self.key_schedule) = 240
           /\ \A i \in 1..Len(self.key_schedule) : self.key_schedule[i] \in 0..255
           /\ \A r \in 0..14 : Len(round_key(self, r)) = 16
           /\ Len(round_key(self, 15)) = 0

C4_Witness ==
    /\ pc = "ready"
    /\ self.key = MainKey
    /\ Len(self.key_schedule) = 240
    /\ SubSeq(self.key_schedule, 1, 32) = MainKey

\* C5: single-block encrypt returns 16 bytes for a 16-byte bytes input, and
\* for every other input raises the block-length error with no round step
\* performed and no bytes returned.
C5_BlockLength ==
    Returned("encrypt")
        => IF call.arg.type = "bytes" /\ Len(call.arg.val) = 16
           THEN /\ ret.exc = "None"
                /\ Len(ret.val) = 16
                /\ \A i \in 1..16 : ret.val[i] \in 0..255
           ELSE /\ ret = BlockError
                /\ ret.trace = <<>>
                /\ ret.val = <<>>

C5_Witness ==
    /\ Returned("encrypt")
    /\ call.arg.type = "bytes"
    /\ Len(call.arg.val) = 32
    /\ ret = BlockError

\* C6: pad(data) is data followed by n bytes of value n, n = 16 - (len mod 16),
\* 1 <= n <= 16, n = 16 on a multiple of 16; the result's length is a multiple
\* of 16 and its first len(data) bytes are data.
C6_Pad ==
    Returned("pad")
        => LET data == call.arg.val
               out  == ret.val
               n    == Len(out) - Len(data)
           IN  /\ ret.exc = "None"
               /\ n \in 1..16
               /\ n = 16 - (Len(data) % 16)
               /\ (Len(data) % 16 = 0) => n = 16
               /\ Len(out) % 16 = 0
               /\ SubSeq(out, 1, Len(data)) = data
               /\ \A i \in (Len(data) + 1)..Len(out) : out[i] = n

C6_Witness ==
    /\ Returned("pad")
    /\ Len(call.arg.val) = 16
    /\ Len(ret.val) = 32
    /\ ret.val[17] = 16
    /\ ret.val[32] = 16

\* C7: unpad(pad(x)) = x for every buffer x, whatever its length and content.
C7_RoundTrip ==
    Returned("unpad(pad)") => ret = Ok(call.arg.val)

\* x is itself a full block of 0x10 bytes, which looks like padding
C7_Witness ==
    /\ Returned("unpad(pad)")
    /\ call.arg.val = Repeat(16, 16)
    /\ ret.val = Repeat(16, 16)

\* the bytes of data that the declared padding length n covers
Covered(data, n) == {Len(data) + 1 - i : i \in 1..Min(n, Len(data))}

\* C8: unpad of a non-empty buffer with last byte n raises the padding error
\* if n > 16 or if one of the last n bytes differs from n.
C8_Rejects ==
    (Returned("unpad") /\ Len(call.arg.val) > 0)
        => LET data == call.arg.val
               n    == data[Len(data)]
           IN  (n > 16 \/ \E i \in Covered(data, n) : data[i] # n)
                   => ret = PaddingError

C8_Witness ==
    /\ Returned("unpad")
    /\ call.arg.val = <<5, 5, 5, 4>>
    /\ ret = PaddingError

\* C9 as stated: for a non-empty buffer whose last byte n is in 0..16 and
\* whose last n bytes all equal n, unpad returns the buffer without its last
\* n bytes (the prefix of length len(data) - n).
C9_AsStated ==
    (Returned("unpad") /\ Len(call.arg.val) > 0)
        => LET data == call.arg.val
               n    == data[Len(data)]
           IN  (n \in 0..16 /\ n <= Len(data) /\ \A i \in Covered(data, n) : data[i] = n)
                   => ret = Ok(SubSeq(data, 1, Len(data) - n))

\* C10: encrypt_full of a plaintext of length L returns 16 * (L div 16 + 1)
\* bytes, the smallest multiple of 16 greater than L; 0, 15 and 16 bytes give
\* 16, 16 and 32.
C10_FullLength ==
    Returned("encrypt_full")
        => LET L == Len(call.arg.val)
               n == Len(ret.val)
           IN  /\ ret.exc = "None"
               /\ n = 16 * ((L \div 16) + 1)
               /\ n % 16 = 0
               /\ n - L \in 1..16
               /\ L = 0 => n = 16
               /\ L = 15 => n = 16
               /\ L = 16 => n = 32

C10_Witness ==
    /\ Returned("encrypt_full")
    /\ Len(call.arg.val) = 16
    /\ Len(ret.val) = 32

\* block i (0, 1, ...) of a buffer: bytes 16i .. 16i+15
BlockOf(buf, i) == Slice(buf, 16 * i, 16 * i + 16)

\* C11: every 16-byte block of encrypt_full(P) is encrypt of the block of
\* pad(P) at the same position, so equal blocks of the padded plaintext give
\* equal ciphertext blocks wherever they stand.
C11_BlockWise ==
    Returned("encrypt_full")
        => LET padded == pad(self, call.arg.val)
               nblk   == Len(padded) \div 16
           IN  /\ ret.exc = "None"
               /\ Len(ret.val) = 16 * nblk
               /\ \A i \in 0..(nblk - 1) :
                      BlockOf(ret.val, i) = encrypt(self, Bytes(BlockOf(padded, i))).val
               /\ \A i, j \in 0..(nblk - 1) :
                      BlockOf(padded, i) = BlockOf(padded, j)
                          => BlockOf(ret.val, i) = BlockOf(ret.val, j)

\* two equal plaintext blocks, then the padding block
C11_Witness ==
    /\ Returned("encrypt_full")
    /\ call.arg.val = Repeat(97, 32)
    /\ Len(ret.val) = 48
    /\ BlockOf(ret.val, 0) = BlockOf(ret.val, 1)
    /\ BlockOf(ret.val, 1) # BlockOf(ret.val, 2)

\* C12: whatever calls came before, encrypt(P) returns what a newly built
\* engine with the same key returns for P; so repeated calls and engines of
\* equal keys agree.
C12_Deterministic ==
    Returned("encrypt")
        => ret = encrypt(init(Bytes(self.key)).self, call.arg)

C12_Witness ==
    /\ Returned("encrypt")
    /\ self.key = MainKey
    /\ call.arg = Bytes(Repeat(0, 16))
    /\ ret.exc = "None"
    /\ Len(ret.val) = 16

\* C13: once the engine is constructed no call changes its attributes: key
\* (32 bytes) and key_schedule (240 bytes) keep the values the constructor
\* gave them.
C13_Immutable ==
    [][DOMAIN self # {}
          => /\ self' = self
             /\ Len(self'.key) = 32
             /\ Len(self'.key_schedule) = 240]_vars

\* a failing call has returned and the schedule is the constructor's
C13_Witness ==
    /\ Returned("unpad")
    /\ ret = PaddingError
    /\ self.key = MainKey
    /\ self.key_schedule = expand_key(MainKey)

\* C15: a call returns either an exception and no bytes, or the whole buffer:
\* 16 bytes from encrypt, the padded length from encrypt_full, nothing from
\* the constructor (whose engine is then complete), a prefix of its input
\* from unpad.
C15_NoPartialOutput ==
    pc = "returned"
        => \/ /\ ret.exc # "None"
              /\ ret.val = <<>>
              /\ call.op = "__init__" => self = NoAttrs
           \/ /\ ret.exc = "None"
              /\ call.op = "__init__" =>
                     DOMAIN self = {"key", "rounds", "block_size", "key_schedule"}
              /\ call.op = "encrypt" => Len(ret.val) = 16
              /\ call.op = "encrypt_full" =>
                     Len(ret.val) = Len(pad(self, call.arg.val))
              /\ call.op = "unpad" =>
                     /\ Len(ret.val) <= Len(call.arg.val)
                     /\ ret.val = SubSeq(call.arg.val, 1, Len(ret.val))

C15_Witness ==
    /\ Returned("encrypt_full")
    /\ Len(call.arg.val) = 17
    /\ ret.exc = "None"
    /\ Len(ret.val) = 32

\* the input of the call violates the operation's precondition
InvalidKey == call.arg.type # "bytes" \/ Len(call.arg.val) # 32

InvalidBlock == call.arg.type # "bytes" \/ Len(call.arg.val) # 16

BadTrailingBytes ==
    /\ Len(call.arg.val) > 0
    /\ LET data == call.arg.val
           n    == data[Len(data)]
       IN  n > 16 \/ \E i \in Covered(data, n) : data[i] # n

\* C16: an invalid key, an invalid block and bad trailing bytes are each
\* answered by their own exception, the three pairwise different, and no such
\* input makes the call succeed; nothing else raises one of the three.
C16_DistinctErrors ==
    /\ KeyError # BlockError /\ KeyError # PaddingError /\ BlockError # PaddingError
    /\ Returned("__init__") => (InvalidKey <=> ret = KeyError)
    /\ Returned("__init__") => (InvalidKey <=> ret.exc # "None")
    /\ Returned("encrypt") => (InvalidBlock <=> ret = BlockError)
    /\ Returned("encrypt") => (InvalidBlock <=> ret.exc # "None")
    /\ Returned("unpad") => (BadTrailingBytes => ret = PaddingError)
    /\ Returned("unpad") => (ret.exc = "ValueError" => ret = PaddingError)
    /\ (Returned("pad") \/ Returned("encrypt_full") \/ Returned("unpad(pad)"))
           => ret.exc = "None"

C16_Witness ==
    /\ Returned("unpad")
    /\ call.arg.val = <<17>>
    /\ ret = PaddingError
    /\ ret # BlockError
    /\ ret # KeyError

\* word i (0..59) of a schedule: bytes 4i .. 4i+3
Word(ks, i) == SubSeq(ks, 4 * i + 1, 4 * i + 4)

\* SubWord and RotWord of FIPS-197, byte by byte
SubWord(w) == <<SBOX[w[1] + 1], SBOX[w[2] + 1], SBOX[w[3] + 1], SBOX[w[4] + 1]>>

RotWord(w) == <<w[2], w[3], w[4], w[1]>>

\* the value XORed into word[i-8]
Temp(ks, i) ==
    IF i % 8 = 0
    THEN LET t == SubWord(RotWord(Word(ks, i - 1)))
         IN  <<BitXor(t[1], RCON[(i \div 8) + 1]), t[2], t[3], t[4]>>
    ELSE IF i % 8 = 4 THEN SubWord(Word(ks, i - 1))
    ELSE Word(ks, i - 1)

\* C20: the schedule a constructor stores follows the AES-256 recurrence:
\* words 0..7 are the key, and word[i] = word[i-8] XOR temp for i in 8..59.
C20_Recurrence ==
    (Returned("__init__") /\ ret.exc = "None")
        => LET ks == self.key_schedule
           IN  /\ SubSeq(ks, 1, 32) = self.key
               /\ \A i \in 8..59 :
                      \A k \in 1..4 :
                          Word(ks, i)[k] = BitXor(Word(ks, i - 8)[k], Temp(ks, i)[k])

C20_Witness ==
    /\ Returned("__init__")
    /\ ret.exc = "None"
    /\ self.key = KatKey
    /\ Word(self.key_schedule, 8) =
           <<BitXor(0, BitXor(SBOX[30], 1)), BitXor(1, SBOX[31]),
             BitXor(2, SBOX[32]), BitXor(3, SBOX[29])>>

\* bit k of a non-negative integer
Bit(p, k) == (p \div (2 ^ k)) % 2

RECURSIVE ClMul(_, _, _)
\* the product of the polynomials a and b over GF(2), not reduced:
\* the XOR of a * x^k over the bits k..7 of b that are set
ClMul(a, b, k) ==
    IF k > 7 THEN 0
    ELSE BitXor(IF Bit(b, k) = 1 THEN a * (2 ^ k) ELSE 0, ClMul(a, b, k + 1))

RECURSIVE PolyMod(_, _)
\* p modulo x^8 + x^4 + x^3 + x + 1 (0x11B = 283), clearing bits k, k-1, .., 8
PolyMod(p, k) ==
    IF k < 8 THEN p
    ELSE PolyMod(IF Bit(p, k) = 1 THEN BitXor(p, 283 * (2 ^ (k - 8))) ELSE p, k - 1)

\* the product of a and b in GF(2^8)
GfProduct(a, b) == PolyMod(ClMul(a, b, 0), 14)

\* C19: for all bytes a, b the 8-step loop returns the GF(2^8) product of a
\* and b modulo x^8+x^4+x^3+x+1, a value in 0..255, although the shifted
\* operand and the accumulator grow beyond 8 bits inside the loop.
C19_GfProduct ==
    pc = "gf_done"
        => /\ ret.val = GfProduct(call.arg[1], call.arg[2])
           /\ ret.val \in 0..255

\* 0x80 * 0x03: the accumulator leaves the byte range before the final mask
C19_Witness ==
    /\ pc = "gf_done"
    /\ call.arg = <<128, 3>>
    /\ gf_loop(128, 3, 0, 8) > 255
    /\ ret.val = GfProduct(128, 3)
    /\ ret.val = 155

\* what a call returns when it runs alone, start to end
Alone(made) ==
    IF made.op = "encrypt"
    THEN [encrypt(self, made.arg) EXCEPT !.trace = <<>>]
    ELSE encrypt_full(self, made.arg.val)

\* every finished call has returned what it returns alone
ResultsAsAlone ==
    (\A t \in Threads : pc[t] = "done")
        => /\ \A t \in Threads : ret[t] = Alone(call.made[t])
           /\ self = init(Bytes(self.key)).self

\* a step leaves alone the locals and the result of every caller that did
\* not take it, and the engine
OwnFrameOnly ==
    /\ self' = self
    /\ \A t \in Threads :
           pc'[t] = pc[t] => (call'.frames[t] = call.frames[t] /\ ret'[t] = ret[t])

\* C14: when calls of several callers on one engine run with their round
\* steps interleaved, every step works on the locals of its own call only,
\* and each call returns what it returns when run alone.
C14_NoInterference == []ResultsAsAlone /\ [][OwnFrameOnly]_vars

\* a single-block and a whole-message call, both finished
C14_Witness ==
    /\ \A t \in {1, 2} : pc[t] = "done"
    /\ call.made[1].op = "encrypt"
    /\ call.made[2].op = "encrypt_full"
    /\ Len(ret[1].val) = 16
    /\ Len(ret[2].val) = 32
    /\ BlockOf(ret[2].val, 0) # ret[1].val

\* the four character classes, stated on the characters themselves
HasAllClasses(password) ==
    /\ \E i \in 1..Len(password) : password[i] \in Chars(ASCII_UPPERCASE)
    /\ \E i \in 1..Len(password) : password[i] \in Chars(ASCII_LOWERCASE)
    /\ \E i \in 1..Len(password) : password[i] \in Chars(DIGITS)
    /\ \E i \in 1..Len(password) : password[i] \in Chars(SPECIAL_CHARS)

\* the list is non-empty, all its elements are strings, and their
\* concatenation has a character other than a space
UsablePhrases(phrases) ==
    /\ Len(phrases) > 0
    /\ \A i \in 1..Len(phrases) : phrases[i].type = "str"
    /\ \E i \in 1..Len(phrases) : \E k \in 1..Len(phrases[i].val) : phrases[i].val[k] # " "

\* C17: generate_from_phrases returns, for usable phrases and whatever the
\* random draws, a password of 10 characters with an uppercase letter, a
\* lowercase letter, a digit and a special character; an empty list, a
\* non-string element or an empty combined phrase raises ValueError.
C17_Generated ==
    /\ pc = "verify" => (UsablePhrases(call.arg) /\ Len(call.password) = 10)
    /\ Returned("generate_from_phrases")
           => IF UsablePhrases(call.arg)
              THEN /\ ret.exc = "None"
                   /\ Len(ret.val) = 10
                   /\ HasAllClasses(ret.val)
              ELSE /\ ret.exc = "ValueError"
                   /\ ret.val = <<>>

C17_Witness ==
    /\ Returned("generate_from_phrases")
    /\ Len(call.arg) = 3
    /\ ret.exc = "None"
    /\ Len(ret.val) = 10
    /\ HasAllClasses(ret.val)
    /\ \E i \in 1..10 : ret.val[i] = "m"

\* C18 as stated: for every string, whatever the random draws,
\* validate_and_adjust returns a password of 10 characters with an uppercase
\* letter, a lowercase letter, a digit and a special character.
C18_AsStated ==
    (Returned("validate_and_adjust") /\ call.arg.type = "str")
        => /\ ret.exc = "None"
           /\ Len(ret.val) = 10
           /\ HasAllClasses(ret.val)

\* the 16-byte state XORed with the 16 schedule bytes from Python index first
XorWithSchedule(state, first) ==
    [i \in 1..16 |-> BitXor(state[i], self.key_schedule[first + i])]

\* the step caller t takes from its position is the next one of the order
\* AddRoundKey(0..15); 13 times SubBytes, ShiftRows, MixColumns,
\* AddRoundKey(16*round..16*round+15); SubBytes, ShiftRows, AddRoundKey(224..239)
NextRoundStep(t) ==
    LET was == call.frames[t]
        now == call'.frames[t]
    IN  CASE pc[t] \in {"call", "join"} -> pc'[t] \in {"join", "add0", "done"}
          [] pc[t] = "add0"   -> /\ pc'[t] = "sub"
                                 /\ now.round = 1
                                 /\ now.state = XorWithSchedule(was.state, 0)
          [] pc[t] = "sub"    -> pc'[t] = "shift" /\ now.round = was.round
          [] pc[t] = "shift"  -> pc'[t] = "mix" /\ now.round = was.round
          [] pc[t] = "mix"    -> pc'[t] = "add" /\ now.round = was.round
          [] pc[t] = "add"    -> /\ was.round \in 1..13
                                 /\ now.state = XorWithSchedule(was.state, 16 * was.round)
                                 /\ now.round = was.round + 1
                                 /\ pc'[t] = IF was.round < 13 THEN "sub" ELSE "fsub"
          [] pc[t] = "fsub"   -> pc'[t] = "fshift" /\ was.round = 14
          [] pc[t] = "fshift" -> pc'[t] = "fadd" /\ was.round = 14
          [] pc[t] = "fadd"   -> /\ was.round = 14
                                 /\ now.state = XorWithSchedule(was.state, 224)
                                 /\ pc'[t] \in {"join", "done"}
          [] OTHER -> FALSE

\* C21: a single-block encrypt takes its round steps in the order
\* AddRoundKey with schedule bytes 0..15; for round 1..13 SubBytes, ShiftRows,
\* MixColumns, AddRoundKey with bytes 16*round..16*round+15; then SubBytes,
\* ShiftRows and AddRoundKey with bytes 224..239, without MixColumns.
C21_RoundOrder == [][\A t \in Threads : pc'[t] # pc[t] => NextRoundStep(t)]_vars

\* a caller before the last AddRoundKey, all 13 loop rounds behind it
C21_Witness ==
    \E t \in Threads :
        /\ pc[t] = "fadd"
        /\ call.made[t].op = "encrypt"
        /\ call.frames[t].round = 14

\* C22: ShiftRows moves the byte at index r + 4*((c + r) mod 4) to index
\* r + 4*c for every row r and column c, so row 0 stays and the result is a
\* permutation of the input bytes.
C22_ShiftRows ==
    [][\A t \in Threads :
          (pc[t] \in {"shift", "fshift"} /\ pc'[t] # pc[t])
              => /\ \A r \in 0..3, c \in 0..3 :
                        call'.frames[t].state[r + 4 * c + 1]
                            = call.frames[t].state[r + 4 * ((c + r) % 4) + 1]
                 /\ \A c \in 0..3 :
                        call'.frames[t].state[4 * c + 1] = call.frames[t].state[4 * c + 1]
                 /\ {r + 4 * ((c + r) % 4) : r \in 0..3, c \in 0..3} = 0..15
                 /\ Len(call'.frames[t].state) = 16]_vars

\* a caller just after a ShiftRows that moved bytes of rows 1, 2 and 3
C22_Witness ==
    \E t \in Threads :
        /\ pc[t] = "mix"
        /\ call.frames[t].round = 2
        /\ \E k \in 2..4 : call.frames[t].state[k] # call.frames[t].state[k + 4]

\* column k of MixColumns' result, from the column's bytes before the step
MixedColumn(old, k) ==
    LET a == old[4 * k + 1]
        b == old[4 * k + 2]
        c == old[4 * k + 3]
        d == old[4 * k + 4]
    IN  << BitXor(BitXor(BitXor(GfProduct(2, a), GfProduct(3, b)), c), d),
           BitXor(BitXor(BitXor(a, GfProduct(2, b)), GfProduct(3, c)), d),
           BitXor(BitXor(BitXor(a, b), GfProduct(2, c)), GfProduct(3, d)),
           BitXor(BitXor(BitXor(GfProduct(3, a), b), c), GfProduct(2, d)) >>

\* C23: MixColumns replaces every column [a,b,c,d] by [2a^3b^c^d, a^2b^3c^d,
\* a^b^2c^3d, 3a^b^c^2d] in GF(2^8), every output computed from the column's
\* bytes before the step and from no other column.
C23_MixColumns ==
    [][\A t \in Threads :
          (pc[t] = "mix" /\ pc'[t] # pc[t])
              => /\ Len(call'.frames[t].state) = 16
                 /\ \A k \in 0..3 :
                        SubSeq(call'.frames[t].state, 4 * k + 1, 4 * k + 4)
                            = MixedColumn(call.frames[t].state, k)]_vars

\* a caller just after the MixColumns of round 13, the last one
C23_Witness ==
    \E t \in Threads :
        /\ pc[t] = "add"
        /\ call.frames[t].round = 13
        /\ \E k \in 1..16 : call.frames[t].state[k] > 1

\* the slices encrypt_full's generator takes: plaintext[i:i + 16] for i in
\* range(0, len(plaintext), 16), in order
PassedSlices(padded) ==
    [k \in 1..((Len(padded) + 15) \div 16) |-> Slice(padded, 16 * (k - 1), 16 * k)]

\* C25: whatever the plaintext, empty included, every slice encrypt_full
\* hands to the block transform has 16 bytes, the slices follow each other
\* without overlap and cover the padded message once, and encrypt_full returns
\* a ciphertext.
C25_SlicesFit ==
    Returned("encrypt_full")
        => LET padded == pad(self, call.arg.val)
               slices == PassedSlices(padded)
           IN  /\ \A k \in 1..Len(slices) :
                      /\ Len(slices[k]) = 16
                      /\ slices[k] = SubSeq(padded, 16 * k - 15, 16 * k)
               /\ 16 * Len(slices) = Len(padded)
               /\ Len(slices) >= 1
               /\ ret.exc = "None"
               /\ Len(ret.val) = Len(padded)

\* the empty plaintext: one slice, all padding
C25_Witness ==
    /\ Returned("encrypt_full")
    /\ call.arg.val = <<>>
    /\ PassedSlices(pad(self, call.arg.val)) = << Repeat(16, 16) >>
    /\ ret.exc = "None"
    /\ Len(ret.val) = 16

\* C26 as stated: for every byte buffer, the empty one and those shorter than
\* their declared padding length included, unpad returns a buffer or raises
\* the invalid-padding error, never another error.
C26_AsStated ==
    Returned("unpad") => (ret.exc = "None" \/ ret = PaddingError)

\* the table has 256 entries, all bytes, no two equal
SboxIsPermutation ==
    /\ Len(SBOX) = 256
    /\ \A i \in 1..Len(SBOX) : SBOX[i] \in 0..255
    /\ Cardinality({SBOX[i] : i \in 1..Len(SBOX)}) = 256

\* C27: the S-box is a permutation of 0..255, so every lookup of SubWord and
\* SubBytes is in range: the schedule and every ciphertext are made of bytes.
C27_SboxPermutation ==
    /\ SboxIsPermutation
    /\ DOMAIN self # {} => \A i \in 1..Len(self.key_schedule) : self.key_schedule[i] \in 0..255
    /\ (Returned("encrypt") /\ ret.exc = "None") => \A i \in 1..Len(ret.val) : ret.val[i] \in 0..255

\* a block of zeros encrypted: the first SubBytes looks up the round key bytes
C27_Witness ==
    /\ Returned("encrypt")
    /\ call.arg.val = Repeat(0, 16)
    /\ self.key = Repeat(255, 32)
    /\ ret.exc = "None"
    /\ \A i \in 1..16 : SBOX[ret.val[i] + 1] \in 0..255

\* xtime: multiplication by x in GF(2^8), a shift and a conditional XOR of 0x1b
Xtime(x) == IF x >= 128 THEN BitXor((2 * x) % 256, 27) ELSE 2 * x

\* C28: _gf_mult(a, b) = _gf_mult(b, a) for all bytes, so _gf_mult(2, x) is
\* xtime(x) and _gf_mult(3, x) is xtime(x) XOR x.
C28_GfCommutes ==
    pc = "gf_done"
        => LET a == call.arg[1]
               b == call.arg[2]
           IN  /\ ret.val = gf_mult(b, a)
               /\ a = 2 => ret.val = Xtime(b)
               /\ a = 3 => ret.val = BitXor(Xtime(b), b)
               /\ b = 2 => ret.val = Xtime(a)
               /\ b = 3 => ret.val = BitXor(Xtime(a), a)

C28_Witness ==
    /\ pc = "gf_done"
    /\ call.arg = <<3, 200>>
    /\ ret.val = BitXor(Xtime(200), 200)
    /\ ret.val = 67

\* C24 as stated: for every non-blank string, every password_length >= 8 and
\* every outcome of the random draws and the shuffle, what
\* _adjust_to_requirements returns (through validate_and_adjust or
\* generate_from_phrases) has at least password_length characters and an
\* uppercase letter, a lowercase letter, a digit and a special character.
C24_AsStated ==
    (/\ pc = "returned"
     /\ call.op \in {"validate_and_adjust", "generate_from_phrases"}
     /\ ret.exc = "None")
        => /\ Len(ret.val) >= self.password_length
           /\ self.password_length >= 8
           /\ HasAllClasses(ret.val)

\* C29: the verify-and-adjust loop of generate_from_phrases ends: with fair
\* draws every password the loop starts with leads to one that meets the
\* requirements and is returned, and the password has 10 characters at every
\* test of the loop.
C29_LoopEnds ==
    /\ (pc = "verify") ~> (pc = "returned")
    /\ [](pc = "verify" => Len(call.password) = 10)

\* a loop that started on a failing password and has replaced a character
C29_Witness ==
    /\ Returned("generate_from_phrases")
    /\ ret.exc = "None"
    /\ call \notin LoopStarts
    /\ HasAllClasses(ret.val)
    /\ Cardinality({i \in 1..10 : ret.val[i] = "A"}) = 1
    /\ Cardinality({i \in 1..10 : ret.val[i] = "1"}) = 1
    /\ Cardinality({i \in 1..10 : ret.val[i] = "!"}) = 1

====
